---- MODULE Spec2Model ----
(***************************************************************************)
(* Model of class Surface (surface.h, surface.cpp): the narrow-band        *)
(* sampling constructor, the raw-point constructors, copy/move             *)
(* construction and assignment, the destructor, operator[], project and    *)
(* snap.                                                                   *)
(*                                                                         *)
(* Coordinates, spacings and field values are exact integers (a fixed      *)
(* length unit): the doubles of the program are modelled without rounding. *)
(* The heap is an array of cells, one per address new Point[n] can return; *)
(* a released cell can be handed out again, as by the allocator.           *)
(***************************************************************************)
EXTENDS Integers, Sequences, FiniteSets, TLC

(* ------------------------------ bounds -------------------------------- *)

NObj == 2            \* Surface objects that can be alive at the same time
MaxCount == 1        \* largest nPoints handed to the raw-point constructors
RunawayBound == 2    \* how far below zero a loop variable of the scan is followed

(* ------------------------------ inputs -------------------------------- *)

Objs == 1..NObj

\* Point values handed to the constructors, to project and to snap
PointSet == { <<3, -3, 1>>, <<-2, 5, -1>> }

\* domains <<x, y, z>> of Interval {min, max}: one whose x extent is not a
\* multiple of the spacing 2, one whose extents are, one with a reversed
\* interval and one with an empty interval
DomainSet == { << <<0, 3>>, <<0, 1>>, <<0, 1>> >>,
               << <<0, 4>>, <<0, 2>>, <<0, 2>> >>,
               << <<0, 1>>, <<0, 1>>, <<1, 0>> >>,
               << <<0, 0>>, <<0, 1>>, <<0, 1>> >> }

\* grid spacings h
SpacingSet == { -1, 0, 2 }

\* implicit fields the caller supplies
FieldSet == { "zero", "planeX" }

Phi(f, x, y, z) ==
  CASE f = "zero"   -> 0
    [] f = "planeX" -> x - 5

(* --------------------------- representation --------------------------- *)

nullptr == 0
NoField == "nullptr"
NoPoint == << >>
IntMax == 2147483647
IntMin == -IntMax - 1

\* the value read back from memory that was written out of bounds and
\* overwritten since
Clobbered == <<-999, -999, -999>>

VARIABLES obj, heap, fault, pc, ctor, ret

vars == <<obj, heap, fault, pc, ctor, ret>>

\* a Surface object that is not alive
Dead == [st |-> "dead", nPoints |-> 0, data |-> nullptr, phi |-> NoField, h |-> 0]

\* the field constructor's frame when no construction is running
NoCtor == [o |-> 0, x |-> <<0, 0>>, y |-> <<0, 0>>, z |-> <<0, 0>>,
           i |-> 0, j |-> 0, k |-> 0, temp |-> nullptr]

\* the last call: the operation, the object it was called on, how it ended,
\* the Point it returned (exact: the Point is representable in the length
\* unit) and the number of evaluations of _phi it made
Ret(op, self, out) ==
  [op |-> op, self |-> self, out |-> out, pt |-> NoPoint, exact |-> TRUE,
   evals |-> 0]

\* a constructor, an assignment or the destructor has returned
Returned == Ret("none", 0, "ok")

Abs(n) == IF n < 0 THEN -n ELSE n

\* (int)(a / b) for b # 0: the quotient truncated toward zero
TruncDiv(a, b) ==
  LET aa == IF b < 0 THEN -a ELSE a
      bb == Abs(b)
  IN  IF aa >= 0 THEN aa \div bb ELSE -((-aa) \div bb)

(* -------------------------------- heap -------------------------------- *)

Cells == 1..(NObj + 1)

FreeCell == [live |-> FALSE, size |-> 0, pts |-> << >>]

\* the address the next new Point[] returns
NextCell(hp) == CHOOSE c \in Cells : ~hp[c].live /\ \A b \in Cells : b < c => hp[b].live

HasFreeCell(hp) == \E c \in Cells : ~hp[c].live

\* new Point[n], n >= 0: a block whose elements are not initialised
New(hp, n) == [hp EXCEPT ![NextCell(hp)] = [live |-> TRUE, size |-> n, pts |-> << >>]]

\* delete[] p
Delete(hp, p) == IF p = nullptr THEN hp ELSE [hp EXCEPT ![p] = FreeCell]

\* the elements [0, n) read through pointer p
Read(hp, p, n) ==
  IF p = nullptr \/ n = 0 THEN << >>
  ELSE [q \in 1..n |-> IF q <= Len(hp[p].pts) THEN hp[p].pts[q] ELSE Clobbered]

\* std::copy / std::fill of the sequence s to pointer p
Store(hp, p, s) ==
  IF p = nullptr \/ Len(s) = 0 THEN hp ELSE [hp EXCEPT ![p].pts = s]

\* what goes wrong in delete[] p
DeleteFault(hp, p) ==
  IF p # nullptr /\ ~hp[p].live THEN "double_free" ELSE "none"

\* what goes wrong in an access to n > 0 elements through p
AccessFault(hp, p, n) ==
  IF n > 0 /\ (p = nullptr \/ ~hp[p].live) THEN "use_after_free" ELSE "none"

\* the first fault of a run is kept
Faults(old, f1, f2) ==
  IF old # "none" THEN old ELSE IF f1 # "none" THEN f1 ELSE f2

Init ==
  /\ obj = [o \in Objs |-> Dead]
  /\ heap = [c \in Cells |-> FreeCell]
  /\ fault = "none"
  /\ pc = "idle"
  /\ ctor = NoCtor
  /\ ret = Returned

(* --------------------------- raw constructors ------------------------- *)

\* Surface(int nPoints, Point data)
CtorFill(o, n, p) ==
  /\ pc = "idle" /\ obj[o].st = "dead"
  /\ HasFreeCell(heap)
  /\ IF n < 0
       THEN /\ ret' = Ret("ctor_fill", o, "bad_array_new_length")
            /\ UNCHANGED <<obj, heap>>
       ELSE /\ heap' = Store(New(heap, n), NextCell(heap), [q \in 1..n |-> p])
            /\ obj' = [obj EXCEPT ![o] = [st |-> "live", nPoints |-> n,
                         data |-> NextCell(heap), phi |-> NoField, h |-> 0]]
            /\ ret' = Returned
  /\ UNCHANGED <<fault, pc, ctor>>

\* Surface(int nPoints, Point* data); data points to nPoints elements
CtorArray(o, n, arr) ==
  /\ pc = "idle" /\ obj[o].st = "dead"
  /\ HasFreeCell(heap)
  /\ IF n < 0
       THEN /\ ret' = Ret("ctor_array", o, "bad_array_new_length")
            /\ UNCHANGED <<obj, heap>>
       ELSE /\ Len(arr) = n
            /\ heap' = Store(New(heap, n), NextCell(heap), arr)
            /\ obj' = [obj EXCEPT ![o] = [st |-> "live", nPoints |-> n,
                         data |-> NextCell(heap), phi |-> NoField, h |-> 0]]
            /\ ret' = Returned
  /\ UNCHANGED <<fault, pc, ctor>>

(* -------------------------- field constructor ------------------------ *)

\* int domainPoints = (x.max - x.min)*(y.max - y.min)*(z.max - z.min)/(h*h*h);
\* for h = 0 the quotient is infinite or NaN and its conversion to int is
\* undefined: the builds produce INT_MIN, 0 or INT_MAX
domainPoints(x, y, z, h) ==
  LET volume == (x[2] - x[1]) * (y[2] - y[1]) * (z[2] - z[1])
  IN  IF h = 0 THEN {IntMin, 0, IntMax} ELSE {TruncDiv(volume, h * h * h)}

\* dist > -delta && dist < delta, with delta = 1.1 * sqrt(3) * h:
\* for h > 0 this is dist^2 < 3.63 * h^2, and no dist passes for h <= 0
InBand(dist, h) == h > 0 /\ 100 * dist * dist < 363 * h * h

\* the member initialisers, domainPoints, new Point[domainPoints], and the
\* initialisation of the outer loop
CtorFieldBegin(o, f, x, y, z, h) ==
  /\ pc = "idle" /\ obj[o].st = "dead"
  /\ HasFreeCell(heap)
  /\ \E dp \in domainPoints(x, y, z, h) :
       \/ /\ dp < 0
          /\ ret' = Ret("ctor_field", o, "bad_array_new_length")
          /\ UNCHANGED <<obj, heap, pc, ctor>>
       \/ /\ dp = IntMax
          /\ ret' = Ret("ctor_field", o, "bad_alloc")
          /\ UNCHANGED <<obj, heap, pc, ctor>>
       \/ /\ dp >= 0
          /\ heap' = New(heap, dp)
          /\ obj' = [obj EXCEPT ![o] = [st |-> "cons", nPoints |-> 0,
                       data |-> nullptr, phi |-> f, h |-> h]]
          /\ ctor' = [o |-> o, x |-> x, y |-> y, z |-> z,
                      i |-> x[1], j |-> 0, k |-> 0, temp |-> NextCell(heap)]
          /\ pc' = "loop_i"
          /\ ret' = Returned
  /\ UNCHANGED fault

\* for (double i = x.min; i < x.max; i += h)
LoopI ==
  /\ pc = "loop_i"
  /\ IF ctor.i < ctor.x[2]
       THEN /\ ctor' = [ctor EXCEPT !.j = ctor.y[1]]
            /\ pc' = "loop_j"
       ELSE /\ pc' = "finish"
            /\ UNCHANGED ctor
  /\ UNCHANGED <<obj, heap, fault, ret>>

\* for (double j = y.min; j < y.max; j += h)
LoopJ ==
  /\ pc = "loop_j"
  /\ IF ctor.j < ctor.y[2]
       THEN /\ ctor' = [ctor EXCEPT !.k = ctor.z[1]]
            /\ pc' = "loop_k"
       ELSE /\ ctor.i + obj[ctor.o].h >= -RunawayBound
            /\ ctor' = [ctor EXCEPT !.i = @ + obj[ctor.o].h, !.j = 0, !.k = 0]
            /\ pc' = "loop_i"
  /\ UNCHANGED <<obj, heap, fault, ret>>

\* temp[_nPoints] = {i,j,k}; ++_nPoints; a write at or past the end of temp
\* is undefined: it lands and is read back, or lands and is overwritten
\* before it is read back, or the process dies
WriteTemp ==
  LET o == ctor.o
      t == ctor.temp
      p == <<ctor.i, ctor.j, ctor.k>>
  IN  IF obj[o].nPoints < heap[t].size
        THEN /\ heap' = [heap EXCEPT ![t].pts = Append(@, p)]
             /\ obj' = [obj EXCEPT ![o].nPoints = @ + 1]
             /\ UNCHANGED <<pc, ret>>
        ELSE \/ /\ heap' = [heap EXCEPT ![t].pts = Append(@, p)]
                /\ obj' = [obj EXCEPT ![o].nPoints = @ + 1]
                /\ UNCHANGED <<pc, ret>>
             \/ /\ heap' = [heap EXCEPT ![t].pts = Append(@, Clobbered)]
                /\ obj' = [obj EXCEPT ![o].nPoints = @ + 1]
                /\ UNCHANGED <<pc, ret>>
             \/ /\ pc' = "crashed"
                /\ ret' = Ret("ctor_field", ctor.o, "crash")
                /\ UNCHANGED <<obj, heap>>

\* for (double k = z.min; k < z.max; k += h) and the loop body
LoopK ==
  /\ pc = "loop_k"
  /\ IF ctor.k < ctor.z[2]
       THEN LET dist == Phi(obj[ctor.o].phi, ctor.i, ctor.j, ctor.k)
            IN  /\ IF InBand(dist, obj[ctor.o].h)
                     THEN WriteTemp
                     ELSE UNCHANGED <<obj, heap, pc, ret>>
                /\ ctor.k + obj[ctor.o].h >= -RunawayBound
                /\ ctor' = [ctor EXCEPT !.k = @ + obj[ctor.o].h]
       ELSE /\ ctor.j + obj[ctor.o].h >= -RunawayBound
            /\ ctor' = [ctor EXCEPT !.j = @ + obj[ctor.o].h, !.k = 0]
            /\ pc' = "loop_j"
            /\ UNCHANGED <<obj, heap, ret>>
  /\ UNCHANGED fault

\* _data = new Point[_nPoints]; std::copy(temp, temp + _nPoints, _data);
\* delete[] temp; after an out-of-bounds write the heap may be corrupt and
\* the release may kill the process
CtorFieldEnd ==
  /\ pc = "finish"
  /\ HasFreeCell(heap)
  /\ LET o == ctor.o
         n == obj[o].nPoints
         d == NextCell(heap)
     IN  \/ /\ heap' = Delete(Store(New(heap, n), d, Read(heap, ctor.temp, n)),
                              ctor.temp)
            /\ obj' = [obj EXCEPT ![o].data = d, ![o].st = "live"]
            /\ ctor' = NoCtor
            /\ pc' = "idle"
            /\ ret' = Returned
         \/ /\ n > heap[ctor.temp].size
            /\ pc' = "crashed"
            /\ ret' = Ret("ctor_field", ctor.o, "crash")
            /\ UNCHANGED <<obj, heap, ctor>>
  /\ UNCHANGED fault

(* ------------------------ copy, move, destruction --------------------- *)

\* Surface(const Surface &src)
CopyCtor(d, s) ==
  /\ pc = "idle" /\ obj[d].st = "dead" /\ obj[s].st = "live"
  /\ HasFreeCell(heap)
  /\ LET n == obj[s].nPoints
         b == NextCell(heap)
     IN  /\ heap' = Store(New(heap, n), b, Read(heap, obj[s].data, n))
         /\ obj' = [obj EXCEPT ![d] = [st |-> "live", nPoints |-> n, data |-> b,
                                      phi |-> NoField, h |-> 0]]
         /\ fault' = Faults(fault, AccessFault(heap, obj[s].data, n), "none")
  /\ ret' = Returned
  /\ UNCHANGED <<pc, ctor>>

\* the move constructor without src._data = nullptr
MoveCtorKeepsData(d, s) ==
  /\ pc = "idle" /\ obj[d].st = "dead" /\ obj[s].st = "live"
  /\ obj' = [obj EXCEPT ![d] = [st |-> "live", nPoints |-> obj[s].nPoints,
                                data |-> obj[s].data, phi |-> NoField, h |-> 0],
                        ![s].nPoints = 0]
  /\ ret' = Returned
  /\ UNCHANGED <<heap, fault, pc, ctor>>

\* Surface(Surface &&src)
MoveCtor(d, s) ==
  /\ pc = "idle" /\ obj[d].st = "dead" /\ obj[s].st = "live"
  /\ obj' = [obj EXCEPT ![d] = [st |-> "live", nPoints |-> obj[s].nPoints,
                                data |-> obj[s].data, phi |-> NoField, h |-> 0],
                        ![s].nPoints = 0, ![s].data = nullptr]
  /\ ret' = Returned
  /\ UNCHANGED <<heap, fault, pc, ctor>>

\* Surface& operator=(const Surface &src)
CopyAssign(d, s) ==
  /\ pc = "idle" /\ obj[d].st = "live" /\ obj[s].st = "live"
  /\ IF d = s
       THEN UNCHANGED <<obj, heap, fault>>
       ELSE LET n == obj[s].nPoints
                src == Read(heap, obj[s].data, n)
            IN  IF obj[d].nPoints # n
                  THEN /\ HasFreeCell(heap)
                       /\ heap' = Store(Delete(New(heap, n), obj[d].data),
                                        NextCell(heap), src)
                       /\ obj' = [obj EXCEPT ![d].data = NextCell(heap),
                                             ![d].nPoints = n]
                       /\ fault' = Faults(fault, DeleteFault(heap, obj[d].data),
                                          AccessFault(heap, obj[s].data, n))
                  ELSE /\ heap' = Store(heap, obj[d].data, src)
                       /\ fault' = Faults(fault, AccessFault(heap, obj[s].data, n),
                                          AccessFault(heap, obj[d].data, n))
                       /\ UNCHANGED obj
  /\ ret' = Returned
  /\ UNCHANGED <<pc, ctor>>

\* Surface& operator=(Surface &&src)
MoveAssign(d, s) ==
  /\ pc = "idle" /\ obj[d].st = "live" /\ obj[s].st = "live"
  /\ IF d = s
       THEN UNCHANGED <<obj, heap, fault>>
       ELSE /\ heap' = Delete(heap, obj[d].data)
            /\ fault' = Faults(fault, DeleteFault(heap, obj[d].data), "none")
            /\ obj' = [obj EXCEPT ![d].data = obj[s].data,
                                  ![d].nPoints = obj[s].nPoints,
                                  ![s].data = nullptr,
                                  ![s].nPoints = 0]
  /\ ret' = Returned
  /\ UNCHANGED <<pc, ctor>>

\* ~Surface()
Dtor(o) ==
  /\ pc = "idle" /\ obj[o].st = "live"
  /\ heap' = Delete(heap, obj[o].data)
  /\ fault' = Faults(fault, DeleteFault(heap, obj[o].data), "none")
  /\ obj' = [obj EXCEPT ![o] = Dead]
  /\ ret' = Returned
  /\ UNCHANGED <<pc, ctor>>

(* ----------------------- operator[], project, snap ------------------- *)

\* Point operator[](int index) const, for an index in [0, nPoints)
Index(o, idx) ==
  /\ pc = "idle" /\ obj[o].st = "live"
  /\ idx < obj[o].nPoints
  /\ ret' = [Ret("index", o, "ok") EXCEPT
               !.pt = Read(heap, obj[o].data, obj[o].nPoints)[idx + 1]]
  /\ fault' = Faults(fault, AccessFault(heap, obj[o].data, 1), "none")
  /\ UNCHANGED <<obj, heap, pc, ctor>>

\* the largest r with r * r <= n
ISqrt(n) == CHOOSE r \in 0..n : r * r <= n /\ (r + 1) * (r + 1) > n

\* the check with && in place of ||
ProjectUnavailableBoth(s) == s.phi = NoField /\ s.h = 0

\* if (_phi == nullptr || _h == 0)
ProjectUnavailable(s) == s.phi = NoField \/ s.h = 0

\* the body of project after the check. With n[c] the difference of _phi
\* across p along axis c, gradient[c] = n[c] / (2h), norm = |n| / (2|h|) and
\* the result is p[c] - sign(h) * n[c] * dist / |n|. It is a Point of the
\* model when |n| is an integer that divides every n[c] * dist.
ProjectPoint(f, h, p) ==
  LET x == p[1]
      y == p[2]
      z == p[3]
      n == << Phi(f, x + h, y, z) - Phi(f, x - h, y, z),
              Phi(f, x, y + h, z) - Phi(f, x, y - h, z),
              Phi(f, x, y, z + h) - Phi(f, x, y, z - h) >>
      sq == n[1] * n[1] + n[2] * n[2] + n[3] * n[3]
      norm == ISqrt(sq)
      dist == Phi(f, x, y, z)
      sgn == IF h < 0 THEN -1 ELSE 1
  IN  IF n[1] = 0 /\ n[2] = 0 /\ n[3] = 0
        THEN [pt |-> p, exact |-> TRUE, evals |-> 6]
        ELSE IF norm * norm = sq /\ \A c \in 1..3 : (n[c] * dist) % norm = 0
          THEN [pt |-> [c \in 1..3 |-> p[c] - sgn * ((n[c] * dist) \div norm)],
                exact |-> TRUE, evals |-> 7]
          ELSE [pt |-> p, exact |-> FALSE, evals |-> 7]

\* Point project(Point p) const
Project(o, p) ==
  /\ pc = "idle" /\ obj[o].st = "live"
  /\ IF ProjectUnavailable(obj[o])
       THEN ret' = Ret("project", o, "ConfigurationError")
       ELSE LET r == ProjectPoint(obj[o].phi, obj[o].h, p)
            IN  ret' = [Ret("project", o, "ok") EXCEPT
                          !.pt = r.pt, !.exact = r.exact, !.evals = r.evals]
  /\ UNCHANGED <<obj, heap, fault, pc, ctor>>

\* (int)((c/_h)+0.5)*_h for _h # 0: c/_h + 0.5 is (2c + _h) / (2 _h)
SnapCoord(c, h) == TruncDiv(2 * c + h, 2 * h) * h

SnapPoint(p, h) == [c \in 1..3 |-> SnapCoord(p[c], h)]

\* Point snap(Point p) const; with _h = 0 the quotient c/_h is infinite or
\* NaN and its conversion to int is undefined: the product with _h is zero
\* whatever int comes out, or the conversion traps
Snap(o, p) ==
  /\ pc = "idle" /\ obj[o].st = "live"
  /\ IF obj[o].nPoints = 0
       THEN /\ ret' = Ret("snap", o, "EmptySurfaceError")
            /\ UNCHANGED pc
       ELSE IF obj[o].h = 0
         THEN \/ /\ ret' = [Ret("snap", o, "ok") EXCEPT !.pt = <<0, 0, 0>>]
                 /\ UNCHANGED pc
              \/ /\ ret' = Ret("snap", o, "crash")
                 /\ pc' = "crashed"
         ELSE /\ ret' = [Ret("snap", o, "ok") EXCEPT !.pt = SnapPoint(p, obj[o].h)]
              /\ UNCHANGED pc
  /\ UNCHANGED <<obj, heap, fault, ctor>>

\* the constructors, with their arguments drawn from the given sets
Construct(points, fields, domains, spacings) ==
  \/ \E o \in Objs, n \in -1..MaxCount, p \in points : CtorFill(o, n, p)
  \/ \E o \in Objs, n \in -1..MaxCount :
       \E arr \in [1..(IF n < 0 THEN 0 ELSE n) -> points] : CtorArray(o, n, arr)
  \/ \E o \in Objs, f \in fields, dom \in domains, h \in spacings :
       CtorFieldBegin(o, f, dom[1], dom[2], dom[3], h)
  \/ LoopI
  \/ LoopJ
  \/ LoopK
  \/ CtorFieldEnd

\* copies, moves, assignments and destructions
Transfer ==
  \/ \E d \in Objs, s \in Objs : CopyCtor(d, s)
  \/ \E d \in Objs, s \in Objs : MoveCtor(d, s)
  \/ \E d \in Objs, s \in Objs : CopyAssign(d, s)
  \/ \E d \in Objs, s \in Objs : MoveAssign(d, s)
  \/ \E o \in Objs : Dtor(o)

Next ==
  \/ Construct(PointSet, FieldSet, DomainSet, SpacingSet)
  \/ Transfer
  \/ \E o \in Objs, idx \in 0..MaxCount : Index(o, idx)
  \/ \E o \in Objs, p \in PointSet : Project(o, p)
  \/ \E o \in Objs, p \in PointSet : Snap(o, p)

\* every operation of Surface
Spec == Init /\ [][Next]_vars

\* the inputs of the two narrower specifications: one point value, the
\* domain that overruns the buffer, and an empty and a scanned domain
OnePoint == { <<3, -3, 1>> }
OverrunDomain == { << <<0, 3>>, <<0, 1>>, <<0, 1>> >> }
FittingDomains == { << <<0, 0>>, <<0, 1>>, <<0, 1>> >>,
                    << <<0, 4>>, <<0, 2>>, <<0, 2>> >> }

\* the operations that allocate, hand over and release point storage
NextOwnership ==
  \/ Construct(OnePoint, { "zero" }, OverrunDomain, { 0, 2 })
  \/ Transfer

SpecOwnership == Init /\ [][NextOwnership]_vars

\* project on every Surface the constructions, copies, moves and
\* assignments produce, from a field with and without a spacing
NextProject ==
  \/ Construct(OnePoint, { "planeX" }, FittingDomains, { 0, 2 })
  \/ Transfer
  \/ \E o \in Objs, p \in OnePoint : Project(o, p)

SpecProject == Init /\ [][NextProject]_vars

(* ------------------------------ claims -------------------------------- *)

Scanning == pc \in {"loop_i", "loop_j", "loop_k", "finish"}

\* C1: while the field constructor scans with h > 0, the number of points
\* accepted so far never exceeds the capacity of the buffer they are
\* written to.
C1_WritesStayInBounds ==
  (Scanning /\ obj[ctor.o].h > 0) => obj[ctor.o].nPoints <= heap[ctor.temp].size

\* the number of values lo, lo + h, lo + 2h, ... below hi, for h > 0
GridSteps(lo, hi, h) == IF hi > lo THEN (hi - lo + h - 1) \div h ELSE 0

\* the grid points of the domain in scan order (x outermost, z innermost)
\* whose field value lies in the band, for h > 0
BandPoints(f, x, y, z, h) ==
  LET nb == GridSteps(y[1], y[2], h)
      nc == GridSteps(z[1], z[2], h)
      total == GridSteps(x[1], x[2], h) * nb * nc
      grid == [q \in 1..total |->
                 << x[1] + ((q - 1) \div (nb * nc)) * h,
                    y[1] + (((q - 1) \div nc) % nb) * h,
                    z[1] + ((q - 1) % nc) * h >>]
  IN  SelectSeq(grid, LAMBDA g : 100 * Phi(f, g[1], g[2], g[3]) * Phi(f, g[1], g[2], g[3])
                                   < 363 * h * h)

\* C2: a construction from a field with h > 0 does not die, and when it
\* completes the stored sequence is exactly the grid points of the domain
\* inside the band, in scan order, and nPoints is their number.
C2_StoredPointsAreTheBand ==
  [][ (Scanning /\ obj[ctor.o].h > 0) =>
        /\ pc' # "crashed"
        /\ (pc = "finish" /\ pc' = "idle") =>
             LET o == ctor.o
                 band == BandPoints(obj[o].phi, ctor.x, ctor.y, ctor.z, obj[o].h)
             IN  /\ obj'[o].nPoints = Len(band)
                 /\ heap'[obj'[o].data].size = Len(band)
                 /\ Read(heap', obj'[o].data, obj'[o].nPoints) = band ]_vars

\* C3: a construction from a field with h <= 0 is rejected before the scan:
\* no Surface under construction or constructed from a field has h <= 0.
C3_NonPositiveSpacingRejected ==
  \A o \in Objs :
    (obj[o].st \in {"cons", "live"} /\ obj[o].phi # NoField) => obj[o].h > 0

\* C4: after a move construction or move assignment from a source other
\* than the destination, the source has no points, no storage, no field and
\* no spacing.
C4_MovedFromIsEmptyAndFieldless ==
  [][ \A d \in Objs, s \in Objs :
        (d # s /\ (MoveCtor(d, s) \/ MoveAssign(d, s))) =>
          /\ obj'[s].nPoints = 0
          /\ obj'[s].data = nullptr
          /\ obj'[s].phi = NoField
          /\ obj'[s].h = 0 ]_vars

\* C5: on a Surface with at least one point and h > 0, snap returns a point
\* that snap maps to itself and whose coordinates are multiples of h.
C5_SnapIdempotent ==
  (ret.op = "snap" /\ obj[ret.self].nPoints > 0 /\ obj[ret.self].h > 0) =>
    /\ ret.out = "ok"
    /\ \A c \in 1..3 : ret.pt[c] % obj[ret.self].h = 0
    /\ SnapPoint(ret.pt, obj[ret.self].h) = ret.pt

\* C6: on a Surface with at least one point and h > 0, snap maps every
\* coordinate c to floor(c/h + 1/2) * h.
C6_SnapRoundsHalfUp ==
  [][ \A o \in Objs, p \in PointSet :
        (Snap(o, p) /\ obj[o].nPoints > 0 /\ obj[o].h > 0) =>
          /\ ret'.out = "ok"
          /\ ret'.pt = [c \in 1..3 |->
                          ((2 * p[c] + obj[o].h) \div (2 * obj[o].h)) * obj[o].h] ]_vars

\* C7: on a Surface whose spacing is zero, snap fails with an error and
\* returns no point.
C7_SnapNeedsSpacing ==
  (ret.op = "snap" /\ obj[ret.self].h = 0) =>
    (ret.out \in {"EmptySurfaceError", "ConfigurationError"} /\ ret.pt = NoPoint)

\* C8: project on a Surface without a field or with zero spacing fails with
\* the configuration error for every point, evaluates no field, returns no
\* point and leaves every Surface and the point storage unchanged.
C8_ProjectNeedsField ==
  [][ (/\ ret'.op = "project"
       /\ obj[ret'.self].st = "live"
       /\ (obj[ret'.self].phi = NoField \/ obj[ret'.self].h = 0)) =>
        /\ ret'.out = "ConfigurationError"
        /\ ret'.evals = 0
        /\ ret'.pt = NoPoint
        /\ obj' = obj
        /\ heap' = heap ]_vars

C8_Witness ==
  /\ ret.op = "project" /\ ret.out = "ConfigurationError"
  /\ obj[ret.self].phi = NoField
  /\ obj[ret.self].nPoints > 0

\* C9: after a copy or move construction or assignment, the destination's
\* field and spacing are those the source had before it.
C9_FieldTravelsWithPoints ==
  [][ \A d \in Objs, s \in Objs :
        (d # s /\ (CopyCtor(d, s) \/ MoveCtor(d, s)
                     \/ CopyAssign(d, s) \/ MoveAssign(d, s))) =>
          /\ obj'[d].phi = obj[s].phi
          /\ obj'[d].h = obj[s].h ]_vars

\* the Surface objects that own storage
Owners(c) == { o \in Objs : obj[o].st = "live" /\ obj[o].data = c }

====
